---- MODULE Spec2Model ----
(***************************************************************************)
(* Model of the TrashMail client wrapper (trashmail_api.py) and of the     *)
(* PAT-OPAQUE login script (failing_opaque_code.py).                       *)
(*                                                                         *)
(* Python values are encoded as strings and records:                       *)
(*   None            -> NONE                                               *)
(*   a str token     -> a sequence of one-character strings                *)
(*   a JSON body     -> a record [t, success, msg, error_code, data, other]*)
(*                      whose fields hold ABSENT when the key is missing   *)
(*   an HTTP answer  -> a record [exc, isjson, body, cookie]               *)
(***************************************************************************)
EXTENDS Naturals, Sequences, FiniteSets

NONE == "None"
ABSENT == "absent"

\* ------------------------------------------------------------------ bounds
\* Number of times logout() may replace the session object.
MaxSessions == 1
\* Longest suffix that follows the 'tmpat_' prefix in the enumerated tokens.
MaxSuffix == 1

\* ------------------------------------------------------------- input sets
Usernames == {"alice", "bob"}

PREFIX == <<"t", "m", "p", "a", "t", "_">>

RECURSIVE SeqsUpTo(_)
SeqsUpTo(n) ==
  IF n = 0 THEN {<<>>}
  ELSE LET S == SeqsUpTo(n - 1)
       IN S \cup {Append(s, "x") : s \in {t \in S : Len(t) = n - 1}}

\* Strings handed in as a token: the bare prefix, the prefix with a suffix,
\* a truncated prefix, a string holding the prefix in the middle and the
\* empty string.
Tokens ==
  {PREFIX \o s : s \in SeqsUpTo(MaxSuffix)}
    \cup {<<>>, <<"t", "m", "p", "a", "t">>, <<"x">> \o PREFIX \o <<"x">>}

\* Passwords handed to login: an ordinary password and a token.
Passwords == {<<"s", "e", "c", "r", "e", "t">>, PREFIX \o <<"x">>}

Cmds == {"read_dea", "save_dea", "logout"}

\* ------------------------------------------------------------ JSON bodies
DataVals ==
  {[t |-> ABSENT, requires_2fa |-> ABSENT],
   [t |-> "null", requires_2fa |-> ABSENT],
   [t |-> "list", requires_2fa |-> ABSENT]}
    \cup [t : {"obj"}, requires_2fa : {ABSENT, "true", "false"}]

NoData == [t |-> ABSENT, requires_2fa |-> ABSENT]

Obj(success, msg, error_code, data, other) ==
  [t |-> "obj", success |-> success, msg |-> msg, error_code |-> error_code,
   data |-> data, other |-> other]

NonObject(t) ==
  [t |-> t, success |-> ABSENT, msg |-> ABSENT, error_code |-> ABSENT,
   data |-> NoData, other |-> ABSENT]

EmptyObject == Obj(ABSENT, ABSENT, ABSENT, NoData, ABSENT)

\* JSON objects the server may answer with: {}, an object without a
\* 'success' key, 'success' false or null with and without 'msg' and
\* 'error_code', and 'success' true with every shape of 'data'.
Objects ==
  {EmptyObject,
   Obj(ABSENT, ABSENT, ABSENT, NoData, "x"),
   Obj(ABSENT, "denied", ABSENT, NoData, ABSENT),
   Obj("false", ABSENT, ABSENT, NoData, ABSENT),
   Obj("false", "denied", "E7", NoData, ABSENT),
   Obj("false", ABSENT, "E7", NoData, ABSENT),
   Obj("null", "denied", ABSENT, NoData, ABSENT)}
    \cup {Obj("true", ABSENT, ABSENT, d, ABSENT) : d \in DataVals}

\* JSON null, [], and a non-empty list (any truthy value that is no dict).
Bodies == Objects \cup {NonObject("null"), NonObject("emptylist"), NonObject("list")}

Answer(body, cookie) == [exc |-> FALSE, isjson |-> TRUE, body |-> body, cookie |-> cookie]

\* What session.post(...) can produce: a transport exception, a body that is
\* not JSON, or a JSON body; an answer may carry a Set-Cookie header.
Responses ==
  {[exc |-> TRUE, isjson |-> FALSE, body |-> NonObject("null"), cookie |-> FALSE]}
    \cup [exc : {FALSE}, isjson : {FALSE}, body : {NonObject("null")}, cookie : BOOLEAN]
    \cup {Answer(b, FALSE) : b \in Bodies}
    \cup {Answer(Obj("true", ABSENT, ABSENT, NoData, ABSENT), TRUE)}

NoResponse == [exc |-> FALSE, isjson |-> FALSE, body |-> NonObject("null"), cookie |-> FALSE]

\* Python truthiness of the atoms used as field values.
Truthy(v) == v \in {"true", "denied", "E7", "x"}

\* bool(value) of a parsed body: None, [] and {} are falsy.
TruthyBody(b) ==
  CASE b.t = "null" -> FALSE
    [] b.t = "emptylist" -> FALSE
    [] b.t = "list" -> TRUE
    [] OTHER -> \/ b.success # ABSENT \/ b.msg # ABSENT \/ b.error_code # ABSENT
                \/ b.data.t # ABSENT \/ b.other # ABSENT

\* dict.get(key, default) on an atom-valued field; JSON null reads as None.
Get(v, default) == IF v = ABSENT THEN default ELSE IF v = "null" THEN NONE ELSE v

\* ---------------------------------------------------------------- outcomes
Ret(v) == [kind |-> "return", val |-> v, exc |-> NONE, msg |-> NONE, code |-> NONE]
Raise(e, m, c) == [kind |-> "raise", val |-> NONE, exc |-> e, msg |-> m, code |-> c]
NoOutcome == [kind |-> "none", val |-> NONE, exc |-> NONE, msg |-> NONE, code |-> NONE]

\* A request as sent on the wire: the cmd query parameter and the JSON payload.
Request(cmd, user, pass, realemail) ==
  [cmd |-> cmd, user |-> user, pass |-> pass, realemail |-> realemail]

\* The effect of one method call on a client object: the object's fields
\* afterwards, how the call ended, and the requests it sent.
Effect(auth, user, sess, out, sent) ==
  [authenticated |-> auth, username |-> user, session |-> sess, out |-> out, sent |-> sent]

\* ------------------------------------------------------- TrashMailClient
\* requests.Session keeps the cookies of every answer it receives.
post(sess, r) == [sess EXCEPT !.cookie = @ \/ r.cookie]

NewSession(sess) == [gen |-> sess.gen + 1, cookie |-> FALSE]

safe_json(r) == IF r.isjson THEN r.body ELSE NonObject("null")

GetData(b) == IF b.data.t = ABSENT THEN [t |-> "obj", requires_2fa |-> ABSENT] ELSE b.data

StartsWith(s, pre) == Len(s) >= Len(pre) /\ SubSeq(s, 1, Len(pre)) = pre

is_pat_token(password) ==
  /\ Len(password) > 0
  /\ StartsWith(password, PREFIX)
  /\ Len(password) > 6

\* The try block of login.
login_try(self, u, p, r) ==
  LET sent == <<Request("login", u, p, NONE)>>
      sess == post(self.session, r)
      result == safe_json(r)
      data == GetData(result)
  IN IF r.exc
       THEN Effect(self.authenticated, self.username, self.session,
                   Raise("ConnectionError", "transport", NONE), sent)
     ELSE IF ~TruthyBody(result)
       THEN Effect(self.authenticated, self.username, sess,
                   Raise("TrashMailAPIError", "Invalid response from server", NONE), sent)
     ELSE IF result.t # "obj"
       THEN Effect(self.authenticated, self.username, sess,
                   Raise("AttributeError", "get", NONE), sent)
     ELSE IF Truthy(result.success)
       THEN IF data.t # "obj"
              THEN Effect(TRUE, u, sess, Raise("AttributeError", "get", NONE), sent)
            ELSE IF Truthy(data.requires_2fa)
              THEN Effect(TRUE, u, sess, Ret("False"), sent)
            ELSE Effect(TRUE, u, sess, Ret("True"), sent)
     ELSE Effect(self.authenticated, self.username, sess,
                 Raise("TrashMailAPIError", Get(result.msg, "Login failed"),
                       Get(result.error_code, NONE)), sent)

\* login without its 'except Exception' clause.
login_unwrapped(self, u, p, r) == login_try(self, u, p, r)

\* login: TrashMailAPIError passes through, any other exception is wrapped.
login(self, u, p, r) ==
  LET e == login_try(self, u, p, r)
  IN IF e.out.kind = "raise" /\ e.out.exc # "TrashMailAPIError"
       THEN [e EXCEPT !.out = Raise("TrashMailAPIError", "Login error", NONE)]
     ELSE e

\* login_with_pat testing the token with is_pat_token.
login_with_pat_strict(self, u, pat_token, r) ==
  IF ~is_pat_token(pat_token)
    THEN Effect(self.authenticated, self.username, self.session,
                Raise("ValueError", "Invalid PAT format", NONE), <<>>)
  ELSE login(self, u, pat_token, r)

login_with_pat(self, u, pat_token, r) ==
  IF ~StartsWith(pat_token, PREFIX)
    THEN Effect(self.authenticated, self.username, self.session,
                Raise("ValueError", "Invalid PAT format", NONE), <<>>)
  ELSE login(self, u, pat_token, r)

api_call(self, cmd, realemail, r) ==
  LET sent == <<Request(cmd, NONE, <<>>, realemail)>>
      sess == post(self.session, r)
      result == safe_json(r)
  IN IF ~self.authenticated
       THEN Effect(self.authenticated, self.username, self.session,
                   Raise("TrashMailAPIError", "Not authenticated", NONE), <<>>)
     ELSE IF r.exc
       THEN Effect(self.authenticated, self.username, self.session,
                   Raise("ConnectionError", "transport", NONE), sent)
     ELSE IF ~TruthyBody(result)
       THEN Effect(self.authenticated, self.username, sess,
                   Raise("TrashMailAPIError", "Invalid response from server", NONE), sent)
     ELSE IF result.t # "obj"
       THEN Effect(self.authenticated, self.username, sess,
                   Raise("AttributeError", "get", NONE), sent)
     ELSE IF ~Truthy(Get(result.success, "true"))
       THEN Effect(self.authenticated, self.username, sess,
                   Raise("TrashMailAPIError", Get(result.msg, "API call failed"),
                         Get(result.error_code, NONE)), sent)
     ELSE Effect(self.authenticated, self.username, sess, Ret("result"), sent)

get_deas(self, r) ==
  LET e == api_call(self, "read_dea", NONE, r)
  IN IF e.out.kind = "return" THEN [e EXCEPT !.out = Ret("data")] ELSE e

create_dea(self, real_email, r) ==
  LET e == api_call(self, "save_dea", real_email, r)
  IN IF e.out.kind = "return" THEN [e EXCEPT !.out = Ret("data")] ELSE e

\* logout that forgets to clear the username.
logout_keeps_username(self, r) ==
  LET e == api_call(self, "logout", NONE, r)
  IN Effect(FALSE, self.username, NewSession(e.session), Ret("True"), e.sent)

logout(self, r) ==
  LET e == api_call(self, "logout", NONE, r)
  IN Effect(FALSE, NONE, NewSession(e.session), Ret("True"), e.sent)

check_auth_methods(self, u, r) ==
  LET sent == <<Request("opaque_check", u, <<>>, NONE)>>
  IN IF r.exc
       THEN Effect(self.authenticated, self.username, self.session, Ret("methods"), sent)
     ELSE Effect(self.authenticated, self.username, post(self.session, r),
                 Ret("methods"), sent)

\* ---------------------------------------------- failing_opaque_code.py
\* Answers to the opaque_check probe: a transport exception, a body that is
\* not JSON, a JSON list, and objects whose 'opaque_enabled' is missing,
\* true, false or null.
ProbeAnswers == {"exc", "notjson", "list", "absent", "true", "false", "null"}

\* opaque_check: None when anything raised, else the capability dict, of
\* which 'opaque_enabled' is kept.
opaque_check(a) ==
  IF a \in {"exc", "list"} THEN [none |-> TRUE, opaque_enabled |-> NONE]
  ELSE IF a = "notjson" THEN [none |-> FALSE, opaque_enabled |-> "false"]
  ELSE [none |-> FALSE, opaque_enabled |-> Get(a, "false")]

NoCapability == [none |-> FALSE, opaque_enabled |-> "unset"]

\* api_login falling back to legacy login when the probe failed.
api_login_branch_fallback(password, capability) ==
  IF is_pat_token(password) /\ ~capability.none /\ Truthy(capability.opaque_enabled)
    THEN "opaque"
  ELSE "legacy"

\* The branch api_login takes once the probe (if any) has answered.
api_login_branch(password, capability) ==
  IF is_pat_token(password)
       /\ (capability.none \/ Truthy(capability.opaque_enabled))
    THEN "opaque"
  ELSE "legacy"

\* Answers to pat_opaque_auth_init.
InitAnswers ==
  {[exc |-> TRUE, success |-> ABSENT, session_id |-> ABSENT, loginResponse |-> ABSENT]}
    \cup [exc : {FALSE}, success : {ABSENT, "true", "false"},
          session_id : {ABSENT, "s1", "s2"}, loginResponse : {ABSENT, "ke2"}]

NoInitAnswer ==
  [exc |-> FALSE, success |-> "unset", session_id |-> ABSENT, loginResponse |-> ABSENT]

\* Answers to pat_opaque_auth_finish: 'data' missing, or an object that may
\* hold 'session_id' and 'pat', beside a top-level 'session_id'.
FinishAnswers ==
  {[exc |-> TRUE, data |-> ABSENT, data_session_id |-> ABSENT, pat |-> ABSENT,
    session_id |-> ABSENT]}
    \cup [exc : {FALSE}, data : {ABSENT}, data_session_id : {ABSENT}, pat : {ABSENT},
          session_id : {ABSENT, "s4"}]
    \cup [exc : {FALSE}, data : {"obj"}, data_session_id : {ABSENT, "s3"},
          pat : {ABSENT, "p"}, session_id : {ABSENT, "s4"}]

\* What pat_opaque_start does with the init answer: where it raises, if it
\* does, and the session_id cookie it has set by then.
StartResult(raised, cookie, session_id) ==
  [raised |-> raised, cookie |-> cookie, session_id |-> session_id]

\* pat_opaque_start without the test of 'success'.
pat_opaque_start_unchecked(a) ==
  IF a.exc THEN StartResult(TRUE, NONE, NONE)
  ELSE IF a.session_id = ABSENT THEN StartResult(TRUE, NONE, NONE)
  ELSE IF a.loginResponse = ABSENT THEN StartResult(TRUE, a.session_id, NONE)
  ELSE StartResult(FALSE, a.session_id, a.session_id)

pat_opaque_start(a) ==
  IF a.exc THEN StartResult(TRUE, NONE, NONE)
  ELSE IF ~Truthy(a.success) THEN StartResult(TRUE, NONE, NONE)
  ELSE IF a.session_id = ABSENT THEN StartResult(TRUE, NONE, NONE)
  ELSE IF a.loginResponse = ABSENT THEN StartResult(TRUE, a.session_id, NONE)
  ELSE StartResult(FALSE, a.session_id, a.session_id)

\* 'x or y or z' over values of which ABSENT and NONE are falsy.
Or3(x, y, z) ==
  IF x \notin {ABSENT, NONE} THEN x ELSE IF y \notin {ABSENT, NONE} THEN y ELSE z

ApiLoginResult(kind, ok, sess, failed) ==
  [kind |-> kind, ok |-> ok, session |-> sess, failed |-> failed]

NoResult == ApiLoginResult("none", NONE, NONE, NONE)

\* legacy_login is called by api_login and defined nowhere in the script:
\* it may return a truthy value, return a falsy value, or raise.
LegacyOutcomes == {"truthy", "falsy", "raise"}

OpaqueRequest(cmd, session_id) == [cmd |-> cmd, session_id |-> session_id]

VARIABLES authenticated, username, session, last, hist

VARIABLES pc, call, capability, cookies, reqs, initAnswer, local, steps, result

cvars == <<authenticated, username, session, last, hist>>

ovars == <<pc, call, capability, cookies, reqs, initAnswer, local, steps, result>>

vars == <<cvars, ovars>>

Self == [authenticated |-> authenticated, username |-> username, session |-> session]

\* The answer that makes login take the branch that sets the flag (line 144).
SuccessAnswer(r) == ~r.exc /\ r.isjson /\ r.body.t = "obj" /\ r.body.success = "true"

IsLoginOp(op) == op \in {"login", "login_with_pat"}

NoCall ==
  [op |-> "none", user |-> NONE, token |-> <<>>, cmd |-> NONE, resp |-> NoResponse,
   out |-> NoOutcome, sent |-> <<>>,
   pre |-> [authenticated |-> FALSE, username |-> NONE,
            session |-> [gen |-> 0, cookie |-> FALSE]]]

\* State after TrashMailClient.__init__.
Init ==
  /\ authenticated = FALSE
  /\ username = NONE
  /\ session = [gen |-> 0, cookie |-> FALSE]
  /\ last = NoCall
  /\ hist = [noLoginReturned |-> TRUE, afterLogout |-> FALSE, flagUser |-> NONE]
  /\ pc = "idle"
  /\ call = [username |-> NONE, password |-> <<>>]
  /\ capability = NoCapability
  /\ cookies = [session_id |-> NONE, pat |-> NONE]
  /\ reqs = <<>>
  /\ initAnswer = NoInitAnswer
  /\ local = [session_id |-> NONE, legacy |-> NONE]
  /\ steps = <<>>
  /\ result = NoResult

\* One completed method call: the object takes the call's effect, and the
\* call, its answer and the state it started from are remembered.
Apply(op, u, tok, cmd, r, e) ==
  /\ UNCHANGED ovars
  /\ authenticated' = e.authenticated
  /\ username' = e.username
  /\ session' = e.session
  /\ last' = [op |-> op, user |-> u, token |-> tok, cmd |-> cmd,
              resp |-> IF e.sent = <<>> THEN NoResponse ELSE r,
              out |-> e.out, sent |-> e.sent, pre |-> Self]
  /\ hist' =
       [noLoginReturned |->
          IF op = "logout" THEN TRUE
          ELSE IF IsLoginOp(op) /\ e.out.kind = "return" THEN FALSE
          ELSE hist.noLoginReturned,
        afterLogout |->
          IF op = "logout" THEN TRUE
          ELSE IF IsLoginOp(op) /\ e.out = Ret("True") THEN FALSE
          ELSE hist.afterLogout,
        flagUser |->
          IF IsLoginOp(op) /\ e.sent # <<>> /\ SuccessAnswer(r) THEN u
          ELSE hist.flagUser]

Login ==
  \E u \in Usernames, p \in Passwords, r \in Responses :
    Apply("login", u, p, "login", r, login(Self, u, p, r))

LoginWithPat ==
  \E u \in Usernames, t \in Tokens, r \in Responses :
    Apply("login_with_pat", u, t, "login", r, login_with_pat(Self, u, t, r))

ApiCall ==
  \E cmd \in Cmds, r \in Responses :
    Apply("api_call", NONE, <<>>, cmd, r, api_call(Self, cmd, NONE, r))

GetDeas ==
  \E r \in Responses :
    Apply("get_deas", NONE, <<>>, "read_dea", r, get_deas(Self, r))

CreateDea ==
  \E r \in Responses :
    Apply("create_dea", NONE, <<>>, "save_dea", r, create_dea(Self, "me@example.com", r))

CheckAuthMethods ==
  \E u \in Usernames, r \in Responses :
    Apply("check_auth_methods", u, <<>>, "opaque_check", r, check_auth_methods(Self, u, r))

Logout ==
  /\ session.gen < MaxSessions
  /\ \E r \in Responses :
       Apply("logout", NONE, <<>>, "logout", r, logout(Self, r))

Next ==
  \/ Login
  \/ LoginWithPat
  \/ ApiCall
  \/ GetDeas
  \/ CreateDea
  \/ CheckAuthMethods
  \/ Logout

Spec == Init /\ [][Next]_vars

\* ------------------------------------------------- api_login, step by step
\* pc is the place api_login has reached; "idle" is before a call and after
\* it returned or raised.
Fail(step) ==
  /\ pc' = "idle"
  /\ result' = ApiLoginResult("raise", NONE, NONE, step)

\* api_login(username, password): a new session, then the probe for a PAT
\* token and legacy login for any other password.
ApiLoginCall ==
  /\ pc = "idle"
  /\ \E u \in Usernames, p \in Tokens \cup Passwords :
       /\ call' = [username |-> u, password |-> p]
       /\ pc' = IF is_pat_token(p) THEN "opaque_check" ELSE "legacy_login"
  /\ capability' = NoCapability
  /\ cookies' = [session_id |-> NONE, pat |-> NONE]
  /\ reqs' = <<>>
  /\ initAnswer' = NoInitAnswer
  /\ local' = [session_id |-> NONE, legacy |-> NONE]
  /\ steps' = <<>>
  /\ result' = NoResult
  /\ UNCHANGED cvars

OpaqueCheck ==
  /\ pc = "opaque_check"
  /\ \E a \in ProbeAnswers :
       /\ capability' = opaque_check(a)
       /\ pc' = IF api_login_branch(call.password, opaque_check(a)) = "opaque"
                  THEN "pat_opaque_start"
                ELSE "legacy_login"
  /\ reqs' = Append(reqs, OpaqueRequest("opaque_check", NONE))
  /\ steps' = Append(steps, "opaque_check")
  /\ UNCHANGED <<cvars, call, cookies, initAnswer, local, result>>

\* pat_opaque_start up to the init request: CreateCredentialRequest (or the
\* import of the library) may raise.
PatOpaqueStartSend ==
  /\ pc = "pat_opaque_start"
  /\ steps' = Append(steps, "pat_opaque_start")
  /\ \E libok \in BOOLEAN :
       IF libok
         THEN /\ reqs' = Append(reqs, OpaqueRequest("pat_opaque_auth_init", NONE))
              /\ pc' = "init_sent"
              /\ UNCHANGED result
       ELSE Fail("pat_opaque_start") /\ UNCHANGED reqs
  /\ UNCHANGED <<cvars, call, capability, cookies, initAnswer, local>>

\* pat_opaque_start from the init answer on.
PatOpaqueStartAnswer ==
  /\ pc = "init_sent"
  /\ \E a \in InitAnswers :
       LET o == pat_opaque_start(a)
       IN /\ initAnswer' = a
          /\ cookies' = [cookies EXCEPT !.session_id = o.cookie]
          /\ local' = [local EXCEPT !.session_id = o.session_id]
          /\ IF o.raised
               THEN Fail("pat_opaque_start")
             ELSE pc' = "pat_opaque_finish" /\ UNCHANGED result
  /\ UNCHANGED <<cvars, call, capability, reqs, steps>>

\* pat_opaque_finish up to the finish request: decoding the login response,
\* RecoverCredentials or the encoding of the payload (which holds bytes) may
\* raise before anything is sent.
PatOpaqueFinishSend ==
  /\ pc = "pat_opaque_finish"
  /\ steps' = Append(steps, "pat_opaque_finish")
  /\ \E libok \in BOOLEAN :
       IF libok
         THEN /\ reqs' = Append(reqs, OpaqueRequest("pat_opaque_auth_finish",
                                                    local.session_id))
              /\ pc' = "finish_sent"
              /\ UNCHANGED result
       ELSE Fail("pat_opaque_finish") /\ UNCHANGED reqs
  /\ UNCHANGED <<cvars, call, capability, cookies, initAnswer, local>>

\* pat_opaque_finish from the finish answer on, and api_login's return.
PatOpaqueFinishAnswer ==
  /\ pc = "finish_sent"
  /\ \E a \in FinishAnswers :
       IF a.exc \/ a.data = ABSENT
         THEN Fail("pat_opaque_finish") /\ UNCHANGED cookies
       ELSE /\ cookies' =
                 [session_id |-> Or3(a.data_session_id, a.session_id, local.session_id),
                  pat |-> IF a.pat = ABSENT THEN cookies.pat ELSE a.pat]
            /\ pc' = "idle"
            /\ result' = ApiLoginResult("return", "True", "session", NONE)
  /\ UNCHANGED <<cvars, call, capability, reqs, initAnswer, local, steps>>

\* legacy_login(session, username, password) and what api_login makes of it.
LegacyLogin ==
  /\ pc = "legacy_login"
  /\ steps' = Append(steps, "legacy_login")
  /\ \E out \in LegacyOutcomes :
       /\ pc' = "idle"
       /\ local' = [local EXCEPT !.legacy = out]
       /\ result' =
            CASE out = "truthy" -> ApiLoginResult("return", "True", "session", NONE)
              [] out = "falsy" -> ApiLoginResult("return", "False", NONE, NONE)
              [] OTHER -> ApiLoginResult("raise", NONE, NONE, "legacy_login")
  /\ UNCHANGED <<cvars, call, capability, cookies, reqs, initAnswer>>

OpaqueNext ==
  \/ ApiLoginCall
  \/ OpaqueCheck
  \/ PatOpaqueStartSend
  \/ PatOpaqueStartAnswer
  \/ PatOpaqueFinishSend
  \/ PatOpaqueFinishAnswer
  \/ LegacyLogin

OpaqueSpec == Init /\ [][OpaqueNext]_vars

\* ------------------------------------------------------------------ claims
NotAuthenticated == Raise("TrashMailAPIError", "Not authenticated", NONE)

Untouched ==
  /\ authenticated = last.pre.authenticated
  /\ username = last.pre.username
  /\ session = last.pre.session

ApiOps == {"api_call", "get_deas", "create_dea"}

\* C1: api_call on a client that is fresh, logged out, or whose login
\* attempts since then have all raised, raises 'Not authenticated', sends no
\* HTTP request and leaves the flag, the username and the session alone.
C1_UnauthenticatedCallRejected ==
  (last.op = "api_call" /\ hist.noLoginReturned)
    => (last.out = NotAuthenticated /\ last.sent = <<>> /\ Untouched)

\* The guard of api_call alone: with the flag down the call is rejected
\* before any request.
ApiCallGuard ==
  (last.op \in ApiOps /\ ~last.pre.authenticated)
    => (last.out = NotAuthenticated /\ last.sent = <<>> /\ Untouched)

\* C2: a login that returns False on a client that was not authenticated
\* leaves is_authenticated False and username None.
C2_FalseLoginStaysUnauthenticated ==
  (last.op = "login" /\ last.out = Ret("False") /\ ~last.pre.authenticated)
    => (~authenticated /\ username = NONE)

\* What logout leaves behind, whatever the server did.
LogoutPostcondition ==
  last.op = "logout"
    => /\ last.out = Ret("True")
       /\ ~authenticated
       /\ username = NONE
       /\ session.cookie = FALSE
       /\ session.gen # last.pre.session.gen

\* C3: logout returns True and leaves the client unauthenticated with a new
\* empty session, and every api_call after it is rejected as not
\* authenticated until a later login succeeds (returns True).
C3_LogoutThenRejected ==
  /\ LogoutPostcondition
  /\ (last.op \in ApiOps /\ hist.afterLogout)
       => (last.out = NotAuthenticated /\ last.sent = <<>>)

\* C4: username is non-None exactly when the client is authenticated, and
\* then it is the username of the most recent login that set the flag.
C4_UsernameIffAuthenticated ==
  /\ (username # NONE) <=> authenticated
  /\ (username # NONE) => username = hist.flagUser

\* C4 witness: a login as bob on a client authenticated as alice.
C4_Witness ==
  /\ IsLoginOp(last.op)
  /\ last.pre.username = "alice"
  /\ authenticated
  /\ username = "bob"

\* C5: login returns True, returns False or raises TrashMailAPIError; a
\* non-empty object with falsy 'success' raises with the answer's msg
\* (default 'Login failed') and error_code, a non-JSON or empty body raises
\* 'Invalid response from server', a transport or other exception is
\* re-raised as 'Login error'.
C5_LoginOutcomes ==
  last.op = "login"
    => LET r == last.resp
           b == r.body
       IN /\ \/ last.out \in {Ret("True"), Ret("False")}
             \/ last.out.kind = "raise" /\ last.out.exc = "TrashMailAPIError"
          /\ (~r.exc /\ r.isjson /\ b.t = "obj" /\ b # EmptyObject
                /\ b.success \in {ABSENT, "false", "null"})
               => last.out = Raise("TrashMailAPIError",
                                   IF b.msg = ABSENT THEN "Login failed" ELSE b.msg,
                                   IF b.error_code = ABSENT THEN NONE ELSE b.error_code)
          /\ (~r.exc /\ (~r.isjson \/ b.t \in {"null", "emptylist"} \/ b = EmptyObject))
               => last.out = Raise("TrashMailAPIError", "Invalid response from server", NONE)
          /\ (r.exc \/ (r.isjson /\ b.t = "list"))
               => last.out = Raise("TrashMailAPIError", "Login error", NONE)

\* C5 witness: a transport exception came back wrapped, and so did nothing else.
C5_Witness ==
  /\ last.op = "login"
  /\ last.resp.exc
  /\ last.out = Raise("TrashMailAPIError", "Login error", NONE)

\* C6: on an authenticated client api_call returns every JSON object that
\* does not carry a falsy 'success' (the empty object included), and raises
\* TrashMailAPIError only for a body that is no JSON object or for a
\* present, falsy 'success'.
C6_ObjectsAreReturned ==
  (last.op = "api_call" /\ last.pre.authenticated)
    => LET r == last.resp
           b == r.body
       IN /\ (~r.exc /\ r.isjson /\ b.t = "obj" /\ b.success \notin {"false", "null"})
               => last.out = Ret("result")
          /\ (last.out.kind = "raise" /\ last.out.exc = "TrashMailAPIError")
               => \/ ~r.isjson
                  \/ b.t # "obj"
                  \/ /\ b.success \in {"false", "null"}
                     /\ last.out.msg = (IF b.msg = ABSENT THEN "API call failed" ELSE b.msg)
                     /\ last.out.code = (IF b.error_code = ABSENT THEN NONE ELSE b.error_code)

\* C7 as stated: login_with_pat accepts exactly the tokens is_pat_token
\* recognises, rejects every other with ValueError before any request, and
\* on an accepted token behaves as login(username, token).
C7_AcceptsExactlyPatTokens ==
  last.op = "login_with_pat"
    => IF is_pat_token(last.token)
         THEN LET e == login(last.pre, last.user, last.token, last.resp)
              IN <<authenticated, username, session, last.out, last.sent>>
                   = <<e.authenticated, e.username, e.session, e.out, e.sent>>
       ELSE last.out.exc = "ValueError" /\ last.sent = <<>> /\ Untouched

\* C7 amended: login_with_pat accepts exactly the strings that start with
\* 'tmpat_', the bare prefix included; every other string raises ValueError
\* before any request with the state unchanged, and an accepted token
\* behaves as login(username, token).
C7_AcceptsExactlyPrefixedTokens ==
  last.op = "login_with_pat"
    => IF Len(last.token) >= 6 /\ SubSeq(last.token, 1, 6) = PREFIX
         THEN LET e == login(last.pre, last.user, last.token, last.resp)
              IN <<authenticated, username, session, last.out, last.sent>>
                   = <<e.authenticated, e.username, e.session, e.out, e.sent>>
       ELSE last.out.exc = "ValueError" /\ last.sent = <<>> /\ Untouched

\* C7 witness: the bare prefix was accepted and logged the client in.
C7_Witness ==
  /\ last.op = "login_with_pat"
  /\ last.token = PREFIX
  /\ last.out = Ret("True")
  /\ authenticated

InSteps(step) == \E i \in 1..Len(steps) : steps[i] = step

Sent(cmd) == \E i \in 1..Len(reqs) : reqs[i].cmd = cmd

\* C8: legacy_login is attempted only for a password that is no PAT token
\* or after the probe returned a capability whose opaque_enabled is false
\* (not truthy: false, the default for a missing key, or null);
\* for a PAT token whose probe failed (None) or reported opaque_enabled true
\* the OPAQUE path is taken and a failure in it is raised without legacy
\* login; (True, session) is returned only after the chosen path succeeded
\* and (False, None) only when legacy_login returned a falsy value.
C8_ApiLoginPaths ==
  LET pat == is_pat_token(call.password)
      probed == capability # NoCapability
      enabled == capability.none \/ capability.opaque_enabled = "true"
  IN /\ InSteps("legacy_login")
          => \/ ~pat
             \/ probed /\ ~capability.none /\ capability.opaque_enabled # "true"
     /\ (pat /\ probed /\ enabled)
          => /\ ~InSteps("legacy_login")
             /\ pc # "legacy_login"
             /\ pc = "idle"
                  => \/ result.kind = "raise"
                        /\ result.failed \in {"pat_opaque_start", "pat_opaque_finish"}
                     \/ result = ApiLoginResult("return", "True", "session", NONE)
     /\ result.kind = "return" /\ result.ok = "True"
          => /\ result.session = "session"
             /\ \/ local.legacy = "truthy"
                \/ /\ pat /\ probed /\ enabled
                   /\ Len(reqs) > 0
                   /\ reqs[Len(reqs)].cmd = "pat_opaque_auth_finish"
     /\ result.kind = "return" /\ result.ok = "False"
          => result.session = NONE /\ local.legacy = "falsy"

\* C8 witness: the probe failed for a PAT token, the OPAQUE path was taken
\* and its failure was raised with no legacy login.
C8_Witness ==
  /\ is_pat_token(call.password)
  /\ capability.none
  /\ result.kind = "raise"
  /\ result.failed = "pat_opaque_finish"
  /\ ~InSteps("legacy_login")

\* C9: a finish request follows an init request of the same call whose
\* answer carried a truthy 'success', and carries that answer's session_id;
\* after an init answer without success pat_opaque_start has raised, no
\* session_id cookie is set and no finish request is sent.
C9_FinishAfterInit ==
  /\ \A i \in 1..Len(reqs) :
       reqs[i].cmd = "pat_opaque_auth_finish"
         => /\ \E j \in 1..(i - 1) : reqs[j].cmd = "pat_opaque_auth_init"
            /\ ~initAnswer.exc
            /\ initAnswer.success = "true"
            /\ reqs[i].session_id = initAnswer.session_id
  /\ (initAnswer # NoInitAnswer /\ ~initAnswer.exc /\ initAnswer.success # "true")
       => /\ pc = "idle"
          /\ result.kind = "raise"
          /\ result.failed = "pat_opaque_start"
          /\ cookies.session_id = NONE
          /\ ~Sent("pat_opaque_auth_finish")

\* C9 witness: a finish request went out with the session_id of the init answer.
C9_Witness ==
  /\ Sent("pat_opaque_auth_finish")
  /\ initAnswer.session_id = "s2"
  /\ reqs[Len(reqs)].session_id = "s2"

====
